---------------------------- MODULE Spec2Model ----------------------------
(***************************************************************************)
(* manage_animation (UnityMcpServer/src/tools/manage_animation.py): the    *)
(* tool builds a sparse request from its optional arguments, hands it to   *)
(* the Unity connection's send_command, and maps the response (or any      *)
(* Exception) to a result dictionary.                                      *)
(*                                                                         *)
(* Python values are records [kind, lit]: kind is the Python type name and *)
(* lit the literal's text.  A dict whose items matter (the request, the    *)
(* response, the result) carries them as a function from key to value.     *)
(***************************************************************************)
EXTENDS Naturals, Sequences, FiniteSets, TLC

VARIABLES pc, args, params, conn, log, response, exc, result

vars == <<pc, args, params, conn, log, response, exc, result>>

----------------------------------------------------------------------------
(* Bounds of the model. *)

\* How many callers may have a call in flight at once (SpecConc).
MaxCallers == 2

\* At most this many optional arguments are supplied in one call (Spec).
MaxSupplied == 1

----------------------------------------------------------------------------
(* Python values. *)

Val(k, l) == [kind |-> k, lit |-> l]

None == Val("NoneType", "None")

PyTrue == Val("bool", "True")

PyFalse == Val("bool", "False")

Str(s) == Val("str", s)

\* bool(v): Python's truth value of v.
Truthy(v) ==
    ~ \/ v.kind = "NoneType"
      \/ v.kind = "bool" /\ v.lit = "False"
      \/ v.kind = "int" /\ v.lit = "0"
      \/ v.kind = "float" /\ v.lit = "0.0"
      \/ v.kind = "str" /\ v.lit = ""
      \/ v.kind = "list" /\ v.lit = "[]"
      \/ v.kind = "dict" /\ v.lit = "{}"

EmptyMap == [k \in {} |-> None]

\* dict.get(k, default)
Get(d, k, default) == IF k \in DOMAIN d THEN d[k] ELSE default

\* A local variable that has not been assigned yet.
Unbound == Val("unbound", "")

NoExc == [cls |-> "", text |-> ""]

Exc(c, t) == [cls |-> c, text |-> t]

\* The classes an exception class derives from (its method resolution order).
Mro(cls) ==
    CASE cls = "AttributeError" -> {"AttributeError", "Exception", "BaseException"}
      [] cls = "ConnectionError" ->
            {"ConnectionError", "OSError", "Exception", "BaseException"}
      [] cls = "Exception" -> {"Exception", "BaseException"}
      [] cls = "KeyboardInterrupt" -> {"KeyboardInterrupt", "BaseException"}
      [] OTHER -> {"BaseException"}

IsInstance(e, cls) == cls \in Mro(e.cls)

----------------------------------------------------------------------------
(* The signature of manage_animation. *)

\* The optional parameters, each defaulting to None.
Fields ==
    {"name", "path", "target", "frameRate", "duration", "loop", "speed",
     "amplitude", "stepHeight", "swayAmount", "controllerPath", "clips",
     "curves"}

Actions == {Str("create_clip"), Str("add_animator")}

\* The annotated type of each optional parameter.
FieldType(f) ==
    CASE f \in {"name", "path", "target", "controllerPath"} -> "str"
      [] f \in {"frameRate", "duration", "speed", "amplitude", "stepHeight",
                "swayAmount"} -> "float"
      [] f = "loop" -> "bool"
      [] OTHER -> "list"

\* The falsy value of a type, and one truthy value of it.
Falsy(t) ==
    CASE t = "str" -> Str("")
      [] t = "float" -> Val("float", "0.0")
      [] t = "bool" -> PyFalse
      [] OTHER -> Val("list", "[]")

TruthyOf(t) ==
    CASE t = "str" -> Str("Player")
      [] t = "float" -> Val("float", "1.5")
      [] t = "bool" -> PyTrue
      [] OTHER -> Val("list", "['Assets/Walk.anim']")

NoArgs == [action |-> Unbound, opt |-> [f \in Fields |-> None]]

\* The argument sets with the optional parameters of S supplied.
ArgsSupplying(S) ==
    { [action |-> a,
       opt |-> [f \in Fields |->
                  IF f \in S
                  THEN (IF pick[f] THEN TruthyOf(FieldType(f))
                        ELSE Falsy(FieldType(f)))
                  ELSE None]] :
        a \in Actions, pick \in [S -> BOOLEAN] }

\* The argument sets with every optional parameter supplied, all falsy or
\* all truthy.
AllSupplied ==
    { [action |-> a,
       opt |-> [f \in Fields |->
                  IF b THEN TruthyOf(FieldType(f)) ELSE Falsy(FieldType(f))]] :
        a \in Actions, b \in BOOLEAN }

SoloArgs ==
    AllSupplied \cup
    UNION { ArgsSupplying(S) :
              S \in { T \in SUBSET Fields : Cardinality(T) <= MaxSupplied } }


----------------------------------------------------------------------------
(* The collaborator: get_unity_connection() and send_command. *)

Callers == 1 .. MaxCallers

Solo == {1}

Absent == Val("absent", "")

\* A Python object the collaborator may hand back: a dict with its items, or
\* a value of another type.
Obj(k, l, it) == [kind |-> k, lit |-> l, items |-> it]

\* The dict holding key k exactly when its value is not Absent.
DictOf(s, m, d, e) ==
    LET v == [success |-> s, message |-> m, data |-> d, error |-> e]
    IN  Obj("dict", "", [k \in {j \in DOMAIN v : v[j] # Absent} |-> v[k]])

SuccessValues ==
    {PyTrue, PyFalse, Str("false"), Val("int", "1"), Val("int", "0"), None}

MessageValues == {Str("ok"), None}

DataValues == {Val("dict", "{'x': 1}"), None}

ErrorValues == {Str("bad target"), None}

DictResponses ==
    { DictOf(s, m, d, e) :
        s \in SuccessValues \cup {Absent}, m \in MessageValues \cup {Absent},
        d \in DataValues \cup {Absent}, e \in ErrorValues \cup {Absent} }

NonDictResponses ==
    { Obj("NoneType", "None", EmptyMap), Obj("list", "[]", EmptyMap),
      Obj("str", "ok", EmptyMap) }

SoloResponses == DictResponses \cup NonDictResponses

\* The smaller inputs of the concurrent specification.
ConcArgs ==
    ArgsSupplying({}) \cup {a \in ArgsSupplying({"name"}) : a.action = Str("create_clip")}

ConcResponses ==
    { DictOf(PyTrue, Str("ok"), Val("dict", "{'x': 1}"), Absent),
      DictOf(PyTrue, Absent, Absent, Absent),
      DictOf(PyFalse, Absent, Absent, Str("bad target")),
      Obj("NoneType", "None", EmptyMap) }

ConcErrors == {Exc("Exception", "connection lost")}

SendErrors == {Exc("Exception", "connection lost"), Exc("KeyboardInterrupt", "")}

ConnectErrors ==
    {Exc("ConnectionError", "Could not connect to Unity"), Exc("KeyboardInterrupt", "")}

\* What a call of the collaborator did: it returned value, or raised error.
Returned(v) == [how |-> "return", value |-> v, error |-> NoExc]

Raised(e) == [how |-> "raise", value |-> Unbound, error |-> e]

NotCalled == [how |-> "none", value |-> Unbound, error |-> NoExc]

\* The object get_unity_connection() returns.
Connection == Val("UnityConnection", "")

----------------------------------------------------------------------------
(* The body of manage_animation. *)

\* BuildParams with every parameter copied, None or not.
BuildParamsAll(a) ==
    [k \in {"action"} \cup Fields |-> IF k = "action" THEN a.action ELSE a.opt[k]]

\* BuildParams with "if name:" in place of "if name is not None:".
BuildParamsTruthy(a) ==
    [k \in {"action"} \cup {f \in Fields : Truthy(a.opt[f])} |->
        IF k = "action" THEN a.action ELSE a.opt[k]]

\* Lines 73-103: "action", then each optional parameter that is not None.
BuildParams(a) ==
    [k \in {"action"} \cup {f \in Fields : a.opt[f] # None} |->
        IF k = "action" THEN a.action ELSE a.opt[k]]

\* SuccessResult with "data" left out when the response has none.
SuccessResultSparse(r) ==
    [k \in {"success", "message"} \cup ({"data"} \cap DOMAIN r.items) |->
        CASE k = "success" -> PyTrue
          [] k = "message" ->
                Get(r.items, "message", Str("Animation operation successful."))
          [] OTHER -> r.items[k]]

\* Lines 110-114.
SuccessResult(r) ==
    [success |-> PyTrue,
     message |-> Get(r.items, "message", Str("Animation operation successful.")),
     data |-> Get(r.items, "data", None)]

\* FailureResult reading "message" where the code reads "error".
FailureResultFromMessage(r) ==
    [success |-> PyFalse,
     message |-> Get(r.items, "message",
                     Str("An unknown error occurred during animation management."))]

\* Lines 116-119.
FailureResult(r) ==
    [success |-> PyFalse,
     message |-> Get(r.items, "error",
                     Str("An unknown error occurred during animation management."))]

\* Line 109: the test of the if statement.
FlagIsSet(r) == Truthy(Get(r.items, "success", None))

\* Line 109: response.get exists on a dict only; elsewhere the attribute
\* lookup raises AttributeError.
HasGet(r) == r.kind = "dict"

NoGetError(r) ==
    Exc("AttributeError", "'" \o r.kind \o "' object has no attribute 'get'")

\* Caught with "except ConnectionError" in place of "except Exception".
CaughtConnectionError(e) == IsInstance(e, "ConnectionError")

\* Line 121: the except clause catches the exceptions derived from Exception.
Caught(e) == IsInstance(e, "Exception")

\* Line 122.
ErrorResult(e) ==
    [success |-> PyFalse,
     message |-> Str("Python error managing animation: " \o e.text)]

TypeOK ==
    /\ pc \in [Callers ->
                {"idle", "build", "connect", "send", "process", "except",
                 "returned", "raised"}]
    /\ \A c \in Callers : conn[c].how \in {"none", "return", "raise"}

Init ==
    /\ pc = [c \in Callers |-> "idle"]
    /\ args = [c \in Callers |-> NoArgs]
    /\ params = [c \in Callers |-> Unbound]
    /\ conn = [c \in Callers |-> NotCalled]
    /\ log = [c \in Callers |-> << >>]
    /\ response = [c \in Callers |-> Unbound]
    /\ exc = [c \in Callers |-> NoExc]
    /\ result = [c \in Callers |-> Unbound]

\* The tool layer invokes manage_animation with an argument set of A.
Call(c, A) ==
    /\ pc[c] = "idle"
    /\ \E a \in A : args' = [args EXCEPT ![c] = a]
    /\ pc' = [pc EXCEPT ![c] = "build"]
    /\ UNCHANGED <<params, conn, log, response, exc, result>>

\* Build with params a module-level dictionary that every call writes.
BuildShared(c) ==
    /\ pc[c] = "build"
    /\ params' = [d \in Callers |-> BuildParams(args[c])]
    /\ pc' = [pc EXCEPT ![c] = "connect"]
    /\ UNCHANGED <<args, conn, log, response, exc, result>>

\* Lines 73-103.
Build(c) ==
    /\ pc[c] = "build"
    /\ params' = [params EXCEPT ![c] = BuildParams(args[c])]
    /\ pc' = [pc EXCEPT ![c] = "connect"]
    /\ UNCHANGED <<args, conn, log, response, exc, result>>

\* Line 106, get_unity_connection(): it returns the connection or raises.
Connect(c) ==
    /\ pc[c] = "connect"
    /\ \/ /\ conn' = [conn EXCEPT ![c] = Returned(Connection)]
          /\ pc' = [pc EXCEPT ![c] = "send"]
          /\ UNCHANGED exc
       \/ \E e \in ConnectErrors :
            /\ conn' = [conn EXCEPT ![c] = Raised(e)]
            /\ exc' = [exc EXCEPT ![c] = e]
            /\ pc' = [pc EXCEPT ![c] = "except"]
    /\ UNCHANGED <<args, params, log, response, result>>

\* Line 106, send_command("manage_animation", params): the collaborator
\* records the command and returns a response of R or raises an error of E.
Send(c, R, E) ==
    /\ pc[c] = "send"
    /\ \/ \E r \in R :
            /\ log' = [log EXCEPT ![c] =
                         Append(@, [cmd |-> "manage_animation",
                                    payload |-> params[c],
                                    outcome |-> Returned(r)])]
            /\ response' = [response EXCEPT ![c] = r]
            /\ pc' = [pc EXCEPT ![c] = "process"]
            /\ UNCHANGED exc
       \/ \E e \in E :
            /\ log' = [log EXCEPT ![c] =
                         Append(@, [cmd |-> "manage_animation",
                                    payload |-> params[c],
                                    outcome |-> Raised(e)])]
            /\ exc' = [exc EXCEPT ![c] = e]
            /\ pc' = [pc EXCEPT ![c] = "except"]
            /\ UNCHANGED response
    /\ UNCHANGED <<args, params, conn, result>>

\* Process behind a module-level record of the calls already answered: a
\* call that comes after another one is turned away.
ProcessOnce(c) ==
    /\ pc[c] = "process"
    /\ IF ~ HasGet(response[c])
       THEN /\ exc' = [exc EXCEPT ![c] = NoGetError(response[c])]
            /\ pc' = [pc EXCEPT ![c] = "except"]
            /\ UNCHANGED result
       ELSE /\ result' = [result EXCEPT ![c] =
                            IF \E d \in Callers \ {c} : pc[d] = "returned"
                            THEN [success |-> PyFalse,
                                  message |-> Str("Animation already handled.")]
                            ELSE IF FlagIsSet(response[c])
                            THEN SuccessResult(response[c])
                            ELSE FailureResult(response[c])]
            /\ pc' = [pc EXCEPT ![c] = "returned"]
            /\ UNCHANGED exc
    /\ UNCHANGED <<args, params, conn, log, response>>

\* Lines 109-119.
Process(c) ==
    /\ pc[c] = "process"
    /\ IF ~ HasGet(response[c])
       THEN /\ exc' = [exc EXCEPT ![c] = NoGetError(response[c])]
            /\ pc' = [pc EXCEPT ![c] = "except"]
            /\ UNCHANGED result
       ELSE /\ result' = [result EXCEPT ![c] =
                            IF FlagIsSet(response[c])
                            THEN SuccessResult(response[c])
                            ELSE FailureResult(response[c])]
            /\ pc' = [pc EXCEPT ![c] = "returned"]
            /\ UNCHANGED exc
    /\ UNCHANGED <<args, params, conn, log, response>>

\* Handler sending the command once more after a caught exception.
HandlerRetrying(c) ==
    /\ pc[c] = "except"
    /\ IF Caught(exc[c]) /\ Len(log[c]) = 1
       THEN /\ pc' = [pc EXCEPT ![c] = "send"]
            /\ UNCHANGED result
       ELSE IF Caught(exc[c])
       THEN /\ result' = [result EXCEPT ![c] = ErrorResult(exc[c])]
            /\ pc' = [pc EXCEPT ![c] = "returned"]
       ELSE /\ pc' = [pc EXCEPT ![c] = "raised"]
            /\ UNCHANGED result
    /\ UNCHANGED <<args, params, conn, log, response, exc>>

\* Lines 121-122: an exception the clause catches becomes the result; any
\* other one leaves manage_animation.
Handler(c) ==
    /\ pc[c] = "except"
    /\ IF Caught(exc[c])
       THEN /\ result' = [result EXCEPT ![c] = ErrorResult(exc[c])]
            /\ pc' = [pc EXCEPT ![c] = "returned"]
       ELSE /\ pc' = [pc EXCEPT ![c] = "raised"]
            /\ UNCHANGED result
    /\ UNCHANGED <<args, params, conn, log, response, exc>>

Next ==
    \E c \in Solo :
        \/ Call(c, SoloArgs)
        \/ Build(c)
        \/ Connect(c)
        \/ Send(c, SoloResponses, SendErrors)
        \/ Process(c)
        \/ Handler(c)

Spec == Init /\ [][Next]_vars

\* The call is synchronous: once send_command has returned or raised, the
\* interpreter runs the statements that follow.  send_command itself may
\* block for ever (no timeout).
FairSpec ==
    Spec /\ \A c \in Solo : WF_vars(Process(c)) /\ WF_vars(Handler(c))

\* Several callers, their steps interleaved.
NextConc ==
    \E c \in Callers :
        \/ Call(c, ConcArgs)
        \/ Build(c)
        \/ Connect(c)
        \/ Send(c, ConcResponses, ConcErrors)
        \/ Process(c)
        \/ Handler(c)

SpecConc == Init /\ [][NextConc]_vars

----------------------------------------------------------------------------
(* What the collaborator saw of a call, for the properties below. *)

Terminal(c) == pc[c] \in {"returned", "raised"}

Dispatched(c) == Len(log[c]) > 0

\* The payload and the outcome of the caller's send_command call.
Payload(c) == log[c][1].payload

Outcome(c) == log[c][1].outcome

\* send_command returned a dict to the caller.
GotDict(c) ==
    Dispatched(c) /\ Outcome(c).how = "return" /\ Outcome(c).value.kind = "dict"

Reply(c) == Outcome(c).value.items

OkFallback == Str("Animation operation successful.")

FailFallback == Str("An unknown error occurred during animation management.")

ErrorPrefix == "Python error managing animation: "

----------------------------------------------------------------------------
(* C1: manage_animation returns a Success result only when the response's   *)
(* "success" is the boolean True; a missing or non-boolean flag always      *)
(* yields a Failure result.                                                 *)
C1_SuccessOnlyOnBooleanTrue ==
    \A c \in Callers :
        (pc[c] = "returned" /\ GotDict(c)) =>
            /\ result[c].success = PyTrue =>
                  ("success" \in DOMAIN Reply(c) /\ Reply(c).success = PyTrue)
            /\ ("success" \notin DOMAIN Reply(c) \/ Reply(c).success.kind # "bool")
                  => result[c].success = PyFalse

(* C2, as claimed: the call never raises, and whenever the collaborator     *)
(* raises or hands back a non-mapping the result is exactly                 *)
(* {success: False, message: prefix + the error's text}.                    *)
C2_NeverRaisesPastBoundary ==
    \A c \in Callers :
        /\ pc[c] # "raised"
        /\ (pc[c] = "returned" /\ conn[c].how = "raise") =>
              result[c] = [success |-> PyFalse,
                           message |-> Str(ErrorPrefix \o conn[c].error.text)]
        /\ (pc[c] = "returned" /\ Dispatched(c) /\ Outcome(c).how = "raise") =>
              result[c] = [success |-> PyFalse,
                           message |-> Str(ErrorPrefix \o Outcome(c).error.text)]
        /\ (pc[c] = "returned" /\ Dispatched(c) /\ Outcome(c).how = "return"
                /\ Outcome(c).value.kind # "dict") =>
              result[c] = [success |-> PyFalse,
                           message |-> Str(ErrorPrefix \o "'" \o Outcome(c).value.kind
                                            \o "' object has no attribute 'get'")]

\* The error the collaborator raised into the call, if it raised one.
RaisedInto(c) ==
    IF conn[c].how = "raise" THEN conn[c].error
    ELSE IF Dispatched(c) /\ Outcome(c).how = "raise" THEN Outcome(c).error
    ELSE NoExc

(* C2, amended: an error derived from Exception (raised by                  *)
(* get_unity_connection or send_command, or the AttributeError of a         *)
(* non-mapping response) never leaves the call and becomes exactly          *)
(* {success: False, message: prefix + the error's text}, with no data key;  *)
(* the call raises only an error the collaborator raised that does not      *)
(* derive from Exception.                                                   *)
C2_ExceptionsBecomeFailure ==
    \A c \in Callers :
        /\ pc[c] = "raised" =>
              (RaisedInto(c) # NoExc /\ ~ IsInstance(RaisedInto(c), "Exception"))
        /\ (Terminal(c) /\ RaisedInto(c) # NoExc
                /\ IsInstance(RaisedInto(c), "Exception")) =>
              /\ pc[c] = "returned"
              /\ result[c] = [success |-> PyFalse,
                              message |-> Str(ErrorPrefix \o RaisedInto(c).text)]
        /\ (Terminal(c) /\ Dispatched(c) /\ Outcome(c).how = "return"
                /\ Outcome(c).value.kind # "dict") =>
              /\ pc[c] = "returned"
              /\ result[c] = [success |-> PyFalse,
                              message |-> Str(ErrorPrefix \o "'" \o Outcome(c).value.kind
                                               \o "' object has no attribute 'get'")]

C2_Witness ==
    \E c \in Callers :
        /\ pc[c] = "returned"
        /\ Dispatched(c)
        /\ Outcome(c) = Raised(Exc("Exception", "connection lost"))
        /\ result[c] = [success |-> PyFalse,
                        message |-> Str("Python error managing animation: connection lost")]

(* C3: the payload handed to send_command has exactly the keys "action" and *)
(* the optional parameters that were supplied, each with the caller's       *)
(* value, and no key maps to None.                                          *)
C3_PayloadIsActionPlusSupplied ==
    \A c \in Callers :
        Dispatched(c) =>
            /\ DOMAIN Payload(c) = {"action"} \cup {f \in Fields : args[c].opt[f] # None}
            /\ Payload(c)["action"] = args[c].action
            /\ \A f \in DOMAIN Payload(c) \ {"action"} : Payload(c)[f] = args[c].opt[f]
            /\ \A k \in DOMAIN Payload(c) : Payload(c)[k] # None

C3_Witness ==
    \E c \in Callers :
        /\ Dispatched(c)
        /\ args[c].opt["target"] = Str("Player")
        /\ args[c].opt["name"] = None
        /\ DOMAIN Payload(c) = {"action", "target"}

(* C4: an optional parameter supplied with a falsy value (False, 0.0, "",   *)
(* []) is in the payload with exactly that value.                           *)
C4_FalsyValuesAreKept ==
    \A c \in Callers :
        Dispatched(c) =>
            \A f \in Fields :
                (args[c].opt[f] # None /\ ~ Truthy(args[c].opt[f])) =>
                    (f \in DOMAIN Payload(c) /\ Payload(c)[f] = args[c].opt[f])

C4_Witness ==
    \E c \in Callers :
        /\ Dispatched(c)
        /\ args[c].opt["loop"] = PyFalse
        /\ Payload(c)["loop"] = PyFalse

(* C5: a response with a truthy "success" gives exactly {success: True,     *)
(* message: its message or the fixed text, data: its data or None}; its     *)
(* error field plays no part.                                               *)
C5_SuccessShape ==
    \A c \in Callers :
        (pc[c] = "returned" /\ GotDict(c) /\ "success" \in DOMAIN Reply(c)
            /\ Truthy(Reply(c).success)) =>
            result[c] =
                [success |-> PyTrue,
                 message |-> IF "message" \in DOMAIN Reply(c)
                             THEN Reply(c).message ELSE OkFallback,
                 data |-> IF "data" \in DOMAIN Reply(c) THEN Reply(c).data ELSE None]

C5_Witness ==
    \E c \in Callers :
        /\ pc[c] = "returned"
        /\ GotDict(c)
        /\ Reply(c) = [success |-> PyTrue, error |-> Str("bad target")]
        /\ result[c] = [success |-> PyTrue, message |-> OkFallback, data |-> None]

(* C6: a response with a falsy or absent "success" gives exactly            *)
(* {success: False, message: its error or the fixed text}, with no data key *)
(* and nothing of its message and data fields.                              *)
C6_FailureShape ==
    \A c \in Callers :
        (pc[c] = "returned" /\ GotDict(c)
            /\ ("success" \notin DOMAIN Reply(c) \/ ~ Truthy(Reply(c).success))) =>
            result[c] =
                [success |-> PyFalse,
                 message |-> IF "error" \in DOMAIN Reply(c)
                             THEN Reply(c).error ELSE FailFallback]

C6_Witness ==
    \E c \in Callers :
        /\ pc[c] = "returned"
        /\ GotDict(c)
        /\ Reply(c) = [message |-> Str("ok"), data |-> Val("dict", "{'x': 1}")]
        /\ result[c] = [success |-> PyFalse, message |-> FailFallback]

(* C7: every result has a boolean success, a string message, and a data key *)
(* exactly when success is True.                                            *)
C7_ResultIsWellTyped ==
    \A c \in Callers :
        pc[c] = "returned" =>
            /\ result[c].success \in {PyTrue, PyFalse}
            /\ result[c].message.kind = "str"
            /\ ("data" \in DOMAIN result[c]) <=> (result[c].success = PyTrue)

(* C8: two calls with identical arguments to which the collaborator behaves *)
(* identically end the same way with identical results, whatever else has   *)
(* run before or between them.                                              *)
C8_SameInputsSameResult ==
    \A c, d \in Callers :
        (Terminal(c) /\ Terminal(d) /\ args[c] = args[d] /\ conn[c] = conn[d]
            /\ Dispatched(c) = Dispatched(d)
            /\ (Dispatched(c) => Outcome(c) = Outcome(d))) =>
            (pc[c] = pc[d] /\ result[c] = result[d])

C8_Witness ==
    \E c, d \in Callers :
        /\ c # d
        /\ pc[c] = "returned" /\ pc[d] = "returned"
        /\ args[c] = args[d]
        /\ GotDict(c) /\ GotDict(d)
        /\ Outcome(c) = Outcome(d)
        /\ result[c].success = PyTrue
        /\ result[c] = result[d]

\* The call has run past line 106.
PastDispatch(c) == pc[c] \in {"process", "except", "returned", "raised"}

\* Every send_command call names the command and carries the built request.
DispatchWellFormed(c) ==
    \A i \in 1 .. Len(log[c]) :
        log[c][i].cmd = "manage_animation" /\ log[c][i].payload = params[c]

(* C9, as claimed: send_command is invoked at most once per call, exactly   *)
(* once when building the request does not fail (it never does), always as  *)
(* "manage_animation" with the built request, and once it has returned or   *)
(* raised the call ends in a result.                                        *)
C9_OneDispatchThenResult ==
    \A c \in Callers :
        /\ Len(log[c]) <= 1
        /\ DispatchWellFormed(c)
        /\ PastDispatch(c) => Len(log[c]) = 1
        /\ Dispatched(c) => pc[c] # "raised"

\* send_command has returned, or raised an error derived from Exception.
DispatchSettled(c) ==
    /\ Dispatched(c)
    /\ Outcome(c).how = "raise" => IsInstance(Outcome(c).error, "Exception")

(* C9, amended: send_command is invoked at most once per call, exactly once *)
(* when get_unity_connection returns and not at all when it raises, always  *)
(* as "manage_animation" with the built request, and never again once it    *)
(* has been invoked; once it has returned or raised an error derived from   *)
(* Exception the call reaches a result, and a call ends without one only    *)
(* when the collaborator raised an error not derived from Exception.        *)
C9_OneDispatchThenResultUnlessNotException ==
    /\ [](\A c \in Callers :
            /\ Len(log[c]) <= 1
            /\ DispatchWellFormed(c)
            /\ PastDispatch(c) => (Len(log[c]) = 1 <=> conn[c].how = "return")
            /\ pc[c] = "raised" =>
                  (RaisedInto(c) # NoExc /\ ~ IsInstance(RaisedInto(c), "Exception")))
    /\ [][\A c \in Callers : Dispatched(c) => log'[c] = log[c]]_vars
    /\ \A c \in Solo : DispatchSettled(c) ~> (pc[c] = "returned")

C9_Witness ==
    \E c \in Callers :
        /\ pc[c] = "returned"
        /\ Len(log[c]) = 1
        /\ Outcome(c).how = "raise"
        /\ result[c].success = PyFalse

\* The values a call's own collaborator exchange can put into its result.
OwnResultValues(c) ==
    {PyTrue, PyFalse, None, OkFallback, FailFallback}
        \cup (IF GotDict(c) THEN {Reply(c)[k] : k \in DOMAIN Reply(c)} ELSE {})
        \cup (IF RaisedInto(c) # NoExc
              THEN {Str(ErrorPrefix \o RaisedInto(c).text)} ELSE {})
        \cup (IF Dispatched(c) /\ Outcome(c).how = "return"
              THEN {Str(ErrorPrefix \o "'" \o Outcome(c).value.kind
                         \o "' object has no attribute 'get'")}
              ELSE {})

(* C10: with the steps of several calls interleaved, each call sends the    *)
(* request made of its own arguments, works on the response its own         *)
(* send_command returned, and returns a result made of that response or of  *)
(* its own error only.                                                      *)
C10_CallsAreIsolated ==
    \A c \in Callers :
        /\ Dispatched(c) =>
              /\ "action" \in DOMAIN Payload(c)
              /\ \A k \in DOMAIN Payload(c) :
                    IF k = "action" THEN Payload(c)[k] = args[c].action
                    ELSE args[c].opt[k] # None /\ Payload(c)[k] = args[c].opt[k]
        /\ (pc[c] \in {"process", "returned"} /\ Dispatched(c)
                /\ Outcome(c).how = "return") => response[c] = Outcome(c).value
        /\ pc[c] = "returned" =>
              \A k \in DOMAIN result[c] : result[c][k] \in OwnResultValues(c)

C10_Witness ==
    \E c, d \in Callers :
        /\ pc[c] = "process" /\ pc[d] = "send"
        /\ args[c] # args[d]
        /\ DOMAIN params[c] # DOMAIN params[d]
        /\ Payload(c) = BuildParams(args[c])

============================================================================
